---- MODULE Spec2Model ----
(***************************************************************************)
(* Model of the two webhook listeners of the repository, each a process of *)
(* its own on port 5000, so a run is of one of them:                       *)
(*   RemoteCC.js   POST /remotecc, GET /events  (remotecc_events.db)       *)
(*   HTTPNotify.js POST /notify,   GET /calls   (calls.db)                 *)
(* Both extract an area code from CALLER_ID_NUMBER, look it up in the      *)
(* state_area_codes table of statescodes.db, insert one row in their event *)
(* table, emit the event on socket.io and answer the POST.                 *)
(*                                                                         *)
(* JavaScript values are records [t, v]: t is the type tag and v the       *)
(* characters of a string (a sequence of one-character strings) or the     *)
(* elements of an array.  undefined and null are distinct values.          *)
(***************************************************************************)
EXTENDS Integers, Sequences, FiniteSets, TLC

----------------------------------------------------------------------------
(* JavaScript values *)

Str(s) == [t |-> "str", v |-> s]

Arr(a) == [t |-> "arr", v |-> a]

Num(d) == [t |-> "num", v |-> d]

Null == [t |-> "null", v |-> <<>>]

Undefined == [t |-> "undef", v |-> <<>>]

EmptyStr == Str(<<>>)

\* ToBoolean: undefined, null, '' and 0 are falsy; every array is truthy.
Truthy(x) ==
    CASE x.t = "undef" -> FALSE
      [] x.t = "null"  -> FALSE
      [] x.t = "str"   -> Len(x.v) > 0
      [] x.t = "num"   -> x.v # <<"0">>
      [] OTHER         -> TRUE

\* x.length: defined for strings and arrays, undefined for a number.
HasLength(x) == x.t \in {"str", "arr"}

Digits == {"0", "1", "2", "3", "4", "5", "6", "7", "8", "9"}

IsDigit(c) == c \in Digits

\* s.replace(/[^0-9]/g, '')
StripNonDigits(s) == SelectSeq(s, IsDigit)

\* s.substring(0, n)
Substring0(s, n) == SubSeq(s, 1, IF Len(s) < n THEN Len(s) ELSE n)

WhiteSpace == {" ", "\t"}

RECURSIVE TrimStart(_)
TrimStart(s) ==
    IF s # <<>> /\ Head(s) \in WhiteSpace THEN TrimStart(Tail(s)) ELSE s

RECURSIVE TrimEnd(_)
TrimEnd(s) ==
    IF s # <<>> /\ s[Len(s)] \in WhiteSpace
    THEN TrimEnd(SubSeq(s, 1, Len(s) - 1))
    ELSE s

\* code.trim()
Trim(s) == TrimEnd(TrimStart(s))

\* s.split(','): the pieces between the commas, empty pieces included;
\* ''.split(',') is [''].
RECURSIVE Split(_)
Split(s) ==
    IF \A i \in 1..Len(s) : s[i] # ","
    THEN <<s>>
    ELSE LET k == CHOOSE i \in 1..Len(s) :
                      s[i] = "," /\ \A j \in 1..(i - 1) : s[j] # ","
         IN  <<SubSeq(s, 1, k - 1)>> \o Split(SubSeq(s, k + 1, Len(s)))

\* row.AreaCodes.split(',').map(code => code.trim())
Codes(areaCodes) ==
    LET parts == Split(areaCodes)
    IN  [i \in 1..Len(parts) |-> Trim(parts[i])]

----------------------------------------------------------------------------
(* Area-code extraction of the two handlers.  The result is the value of   *)
(* AREA_CODE after the if statement, or a thrown TypeError when .replace   *)
(* is called on a value that has no such method.                           *)

TenChars == 10

AreaCodeLen == 3

\* Mutant: the first three characters are taken before the non-digits are
\* stripped.
RemoteCC_AreaCode_CutFirst(num) ==
    IF Truthy(num) /\ HasLength(num) /\ Len(num.v) >= TenChars
    THEN IF num.t = "str"
         THEN [threw |-> FALSE,
               code  |-> StripNonDigits(Substring0(num.v, AreaCodeLen))]
         ELSE [threw |-> TRUE, code |-> <<>>]
    ELSE [threw |-> FALSE, code |-> <<>>]

\* RemoteCC.js: AREA_CODE
RemoteCC_AreaCode(num) ==
    IF Truthy(num) /\ HasLength(num) /\ Len(num.v) >= TenChars
    THEN IF num.t = "str"
         THEN [threw |-> FALSE,
               code  |-> Substring0(StripNonDigits(num.v), AreaCodeLen)]
         ELSE [threw |-> TRUE, code |-> <<>>]
    ELSE [threw |-> FALSE, code |-> <<>>]

\* Mutant: the length test is made on the digit-only form.
Notify_AreaCode_DigitsCounted(num) ==
    IF Truthy(num) /\ HasLength(num)
    THEN IF num.t = "str"
         THEN [threw |-> FALSE,
               code  |-> IF Len(StripNonDigits(num.v)) >= TenChars
                         THEN Substring0(StripNonDigits(num.v), AreaCodeLen)
                         ELSE <<>>]
         ELSE [threw |-> TRUE, code |-> <<>>]
    ELSE [threw |-> FALSE, code |-> <<>>]

\* HTTPNotify.js: CALLER_AREA_CODE
Notify_AreaCode(num) ==
    IF Truthy(num) /\ HasLength(num) /\ Len(num.v) >= TenChars
    THEN IF num.t = "str"
         THEN [threw |-> FALSE,
               code  |-> Substring0(StripNonDigits(num.v), AreaCodeLen)]
         ELSE [threw |-> TRUE, code |-> <<>>]
    ELSE [threw |-> FALSE, code |-> <<>>]

----------------------------------------------------------------------------
(* The routing table state_area_codes and the two resolvers.  A row is     *)
(* [State, AreaCodes, Extension]; a resolver's result is what it passes to *)
(* its callback: null (found = FALSE) or {state, extension}.               *)

NoMatch == [found |-> FALSE, state |-> Null, extension |-> Null]

MatchOf(row) == [found |-> TRUE, state |-> row.State, extension |-> row.Extension]

\* for (const code of codes) if (code === areaCode)
CodeMatches(row, areaCode) ==
    \E i \in 1..Len(Codes(row.AreaCodes.v)) : Codes(row.AreaCodes.v)[i] = areaCode

\* The body of the loop over rows in getExtensionByAreaCode, from row i on.
RECURSIVE ScanRemoteCC(_, _, _)
ScanRemoteCC(rows, i, areaCode) ==
    IF i > Len(rows) THEN NoMatch
    ELSE IF ~Truthy(rows[i].AreaCodes) THEN ScanRemoteCC(rows, i + 1, areaCode)
    ELSE IF CodeMatches(rows[i], areaCode) THEN MatchOf(rows[i])
    ELSE ScanRemoteCC(rows, i + 1, areaCode)

\* Mutant: the scan keeps going after a match, so the last matching row wins.
RECURSIVE ScanRemoteCC_Last(_, _, _, _)
ScanRemoteCC_Last(rows, i, areaCode, best) ==
    IF i > Len(rows) THEN best
    ELSE IF Truthy(rows[i].AreaCodes) /\ CodeMatches(rows[i], areaCode)
         THEN ScanRemoteCC_Last(rows, i + 1, areaCode, MatchOf(rows[i]))
    ELSE ScanRemoteCC_Last(rows, i + 1, areaCode, best)

getExtensionByAreaCode_LastMatch(rows, areaCode) ==
    ScanRemoteCC_Last(rows, 1, areaCode, NoMatch)

\* RemoteCC.js getExtensionByAreaCode, given the rows the query returned.
getExtensionByAreaCode(rows, areaCode) == ScanRemoteCC(rows, 1, areaCode)

\* The body of the loop over rows in getStateAndExtensionByAreaCode.
RECURSIVE ScanNotify(_, _, _)
ScanNotify(rows, i, areaCode) ==
    IF i > Len(rows) THEN NoMatch
    ELSE IF ~Truthy(rows[i].AreaCodes) THEN ScanNotify(rows, i + 1, areaCode)
    ELSE IF \E k \in 1..Len(Codes(rows[i].AreaCodes.v)) :
                Codes(rows[i].AreaCodes.v)[k] = areaCode
         THEN MatchOf(rows[i])
    ELSE ScanNotify(rows, i + 1, areaCode)

\* HTTPNotify.js getStateAndExtensionByAreaCode, given the rows.
getStateAndExtensionByAreaCode(rows, areaCode) == ScanNotify(rows, 1, areaCode)

\* Mutant: a miss is answered 404 instead of 200 with an empty body.
RemoteCC_Response_Miss404(result) ==
    IF result.found /\ Truthy(result.extension)
    THEN [status |-> 200, body |-> result.extension.v]
    ELSE [status |-> 404, body |-> <<>>]

\* RemoteCC.js: the response of POST /remotecc for a resolver result.
RemoteCC_Response(result) ==
    IF result.found /\ Truthy(result.extension)
    THEN [status |-> 200, body |-> result.extension.v]
    ELSE [status |-> 200, body |-> <<>>]

\* HTTPNotify.js: res.status(200).send('Received')
Received == <<"R", "e", "c", "e", "i", "v", "e", "d">>

\* Mutant: POST /notify answers as POST /remotecc does, with the extension.
Notify_Response_Extension(result) ==
    IF result.found /\ Truthy(result.extension)
    THEN [status |-> 200, body |-> result.extension.v]
    ELSE [status |-> 200, body |-> <<>>]

Notify_Response(result) == [status |-> 200, body |-> Received]

----------------------------------------------------------------------------
(* Bounds and the inputs the model draws from *)

\* Webhook requests of one run; also the most that are in flight at once.
MaxReq == 2

Reqs == 1..MaxReq

CA == Str(<<"C", "A">>)
NV == Str(<<"N", "V">>)
TX == Str(<<"T", "X">>)
AZ == Str(<<"A", "Z">>)
Ext100 == Str(<<"1", "0", "0">>)
Ext200 == Str(<<"2", "0", "0">>)
Ext300 == Str(<<"3", "0", "0">>)

Row(st, codes, ext) == [State |-> st, AreaCodes |-> codes, Extension |-> ext]

\* {state: "CA", areaCodes: "415, 650", extension: "100"}
RowCA == Row(CA, Str(<<"4", "1", "5", ",", " ", "6", "5", "0">>), Ext100)

\* {state: "NV", areaCodes: "", extension: "200"}
RowNV == Row(NV, EmptyStr, Ext200)

\* A second row that lists 415, after RowCA in every table that holds both.
RowTX == Row(TX, Str(<<"5", "5", "5", ",", "4", "1", "5">>), Ext300)

\* A row whose list ends in a comma, and a row without AreaCodes or Extension.
RowAZ == Row(AZ, Str(<<"6", "0", "2", ",">>), Ext200)

RowNull == Row(Null, Null, Null)

RowNoExt == Row(TX, Str(<<"1", "4", "1">>), Null)

\* The tables of the server model.
Tables ==
    { <<RowNV, RowNull, RowCA, RowTX>>,
      <<RowNoExt, RowAZ>> }

Plus1415 == Str(<<"+", "1", "4", "1", "5", "5", "5", "5", "1", "2", "3", "4">>)
Ten415 == Str(<<"4", "1", "5", "5", "5", "5", "1", "2", "3", "4">>)
Short555 == Str(<<"5", "5", "5", "-", "1", "2", "3", "4">>)

\* CALLER_ID_NUMBER of the requests of the server model.
CallerNumbers == {Undefined, Short555, Ten415, Plus1415}

MkBody(pbx, cid, name, num, dialed) ==
    [PBX_ID |-> pbx, CALL_ID |-> cid, CALLER_ID_NAME |-> name,
     CALLER_ID_NUMBER |-> num, DIALED_NUMBER |-> dialed]

NoBody == MkBody(Undefined, Undefined, Undefined, Undefined, Undefined)

\* req.body of the requests of the server model: strings or missing fields.
Bodies ==
    { MkBody(Str(<<"p">>), Str(<<"c">>), Str(<<"n">>), num, Str(<<"d">>)) :
        num \in CallerNumbers }

----------------------------------------------------------------------------
(* State *)

VARIABLES
    server,     \* the listener this run is of: remotecc or notify
    table,      \* rows of state_area_codes in statescodes.db, in table order
    clock,      \* CURRENT_TIMESTAMP, in seconds
    pc,         \* per request: idle, lookup, responded, threw
    endpoint,   \* per request: none, remotecc, notify
    body,       \* per request: req.body
    areaCode,   \* per request: AREA_CODE / CALLER_AREA_CODE
    lookupDb,   \* per request: the connection the resolver opened
    result,     \* per request: what the resolver passed to the callback
    eventObj,   \* per request: eventObj / debugBody
    insert,     \* per request: the db.run INSERTs issued (n) and the state
                \* (st) of the last: none, pending, ok, failed
    response,   \* per request: [sent, status, body]
    events,     \* rows of remotecc_events.db events
    calls,      \* rows of calls.db calls
    emitted,    \* the io.emit messages, in order
    observers,  \* the number of sockets connected to io
    delivered,  \* per io.emit message: the number of sockets it went to
    console,    \* what the handlers wrote with console.log / console.error
    query,      \* the last answer of GET /events or GET /calls
    probe,      \* argument and result of a pure function under check
    program,    \* the token server this run is of (none in a webhook run)
    now,        \* Date.now(), in minutes
    expectedState,       \* let expectedState
    latestAccessToken,   \* let latestAccessToken
    latestRefreshToken,  \* let latestRefreshToken
    tokenExpiry,         \* let tokenExpiry (AllExt.js)
    tokenFile,           \* the content of tokens.json
    oauth,      \* per OAuth redirect: its position and its answer
    refreshing, \* the refreshAccessToken calls awaiting the provider
    granted     \* the provider's grant of latestAccessToken: how the program
                \* came by the token, when, and the expires_in it was given

serverVars == <<server, table, clock, pc, endpoint, body, areaCode, lookupDb, result,
                eventObj, insert, response, events, calls, emitted, observers,
                delivered, console, query>>

authVars == <<program, now, expectedState, latestAccessToken,
              latestRefreshToken, tokenExpiry, tokenFile, oauth, refreshing,
              granted>>

vars == <<serverVars, probe, authVars>>

NoEvent == [PBX_ID |-> Undefined, CALL_ID |-> Undefined,
            CALLER_ID_NAME |-> Undefined, CALLER_ID_NUMBER |-> Undefined,
            DIALED_NUMBER |-> Undefined, AREA_CODE |-> <<>>,
            MATCHED_STATE |-> Null, MATCHED_EXTENSION |-> Null]

NoResponse == [sent |-> 0, status |-> 0, body |-> <<>>]

NoProbe == [kind |-> "none"]

NoQuery == [status |-> 0, rows |-> <<>>, error |-> <<>>]

\* A key that a JSON text does not have.
Absent == [t |-> "absent", v |-> <<>>]

\* tokens.json does not exist.
NoFile ==
    [exists |-> FALSE, valid |-> FALSE, accessToken |-> Absent,
     refreshToken |-> Absent, expires_in |-> Absent]

\* let tokenExpiry = null
NoExpiry == [t |-> "null", n |-> 0]

\* No token has been given to the program.
NoGrant == [by |-> "none", at |-> 0, expires_in |-> Undefined]

\* A webhook run has no token server.
AuthIdle ==
    /\ program = "none"
    /\ now = 0
    /\ expectedState = Null
    /\ latestAccessToken = Null
    /\ latestRefreshToken = Null
    /\ tokenExpiry = NoExpiry
    /\ tokenFile = NoFile
    /\ oauth = <<>>
    /\ refreshing = 0
    /\ granted = NoGrant

\* No request has arrived and both event tables are empty.
RequestsIdle ==
    /\ clock = 0
    /\ pc = [r \in Reqs |-> "idle"]
    /\ endpoint = [r \in Reqs |-> "none"]
    /\ body = [r \in Reqs |-> NoBody]
    /\ areaCode = [r \in Reqs |-> <<>>]
    /\ lookupDb = [r \in Reqs |-> "none"]
    /\ result = [r \in Reqs |-> NoMatch]
    /\ eventObj = [r \in Reqs |-> NoEvent]
    /\ insert = [r \in Reqs |-> [n |-> 0, st |-> "none"]]
    /\ response = [r \in Reqs |-> NoResponse]
    /\ events = <<>>
    /\ calls = <<>>
    /\ emitted = <<>>
    /\ observers = 0
    /\ delivered = <<>>
    /\ console = <<>>
    /\ query = NoQuery

Init ==
    /\ server \in {"remotecc", "notify"}
    /\ table \in Tables
    /\ RequestsIdle
    /\ AuthIdle
    /\ probe = NoProbe

----------------------------------------------------------------------------
(* The handlers *)

\* Requests are taken in the order of their numbers (the numbers only name
\* them), each once.
NextToArrive(r) == pc[r] = "idle" /\ \A q \in Reqs : q < r => pc[q] # "idle"

\* app.post('/remotecc'), up to the call of getExtensionByAreaCode, which
\* opens lookupDb and queues the query.  A TypeError thrown by the
\* extraction leaves the handler before anything else happens.
PostRemoteCC(r, b) ==
    /\ server = "remotecc"
    /\ NextToArrive(r)
    /\ LET ac == RemoteCC_AreaCode(b.CALLER_ID_NUMBER)
       IN  IF ac.threw
           THEN /\ pc' = [pc EXCEPT ![r] = "threw"]
                /\ areaCode' = areaCode
                /\ lookupDb' = lookupDb
           ELSE /\ pc' = [pc EXCEPT ![r] = "lookup"]
                /\ areaCode' = [areaCode EXCEPT ![r] = ac.code]
                /\ lookupDb' = [lookupDb EXCEPT ![r] = "open"]
    /\ endpoint' = [endpoint EXCEPT ![r] = "remotecc"]
    /\ body' = [body EXCEPT ![r] = b]
    /\ UNCHANGED <<server, table, clock, result, eventObj, insert, response, events,
                   calls, emitted, probe>>
    /\ UNCHANGED <<console, query, observers, delivered, authVars>>

\* app.post('/notify'), up to the call of getStateAndExtensionByAreaCode.
PostNotify(r, b) ==
    /\ server = "notify"
    /\ NextToArrive(r)
    /\ LET ac == Notify_AreaCode(b.CALLER_ID_NUMBER)
       IN  IF ac.threw
           THEN /\ pc' = [pc EXCEPT ![r] = "threw"]
                /\ areaCode' = areaCode
                /\ lookupDb' = lookupDb
           ELSE /\ pc' = [pc EXCEPT ![r] = "lookup"]
                /\ areaCode' = [areaCode EXCEPT ![r] = ac.code]
                /\ lookupDb' = [lookupDb EXCEPT ![r] = "open"]
    /\ endpoint' = [endpoint EXCEPT ![r] = "notify"]
    /\ body' = [body EXCEPT ![r] = b]
    /\ UNCHANGED <<server, table, clock, result, eventObj, insert, response, events,
                   calls, emitted, probe>>
    /\ UNCHANGED <<console, query, observers, delivered, authVars>>

\* RemoteCC.js eventObj
RemoteCC_EventObj(b, ac, res) ==
    [PBX_ID |-> b.PBX_ID, CALL_ID |-> b.CALL_ID,
     CALLER_ID_NAME |-> b.CALLER_ID_NAME,
     CALLER_ID_NUMBER |-> b.CALLER_ID_NUMBER,
     DIALED_NUMBER |-> b.DIALED_NUMBER, AREA_CODE |-> ac,
     MATCHED_STATE |-> IF res.found THEN res.state ELSE Null,
     MATCHED_EXTENSION |-> IF res.found THEN res.extension ELSE Null]

\* HTTPNotify.js debugBody
Notify_DebugBody(b, ac, res) ==
    [PBX_ID |-> b.PBX_ID, CALL_ID |-> b.CALL_ID,
     DIALED_NUMBER |-> b.DIALED_NUMBER,
     CALLER_ID_NUMBER |-> b.CALLER_ID_NUMBER,
     CALLER_ID_NAME |-> b.CALLER_ID_NAME, CALLER_AREA_CODE |-> ac,
     State |-> IF res.found THEN res.state ELSE Null,
     Extension |-> IF res.found THEN res.extension ELSE Null]

\* Mutant: the event is stored only when a rule matched.
Callback_InsertOnMatchOnly(r, res) ==
    /\ result' = [result EXCEPT ![r] = res]
    /\ eventObj' = [eventObj EXCEPT ![r] =
                      IF endpoint[r] = "remotecc"
                      THEN RemoteCC_EventObj(body[r], areaCode[r], res)
                      ELSE Notify_DebugBody(body[r], areaCode[r], res)]
    /\ insert' = IF res.found
                 THEN [insert EXCEPT ![r] = [n |-> @.n + 1, st |-> "pending"]]
                 ELSE insert
    /\ emitted' = Append(emitted,
                    [name |-> IF endpoint[r] = "remotecc"
                              THEN "new_event" ELSE "new_call",
                     payload |-> eventObj'[r]])
    /\ delivered' = Append(delivered, observers)
    /\ response' = [response EXCEPT ![r] =
                      LET resp == IF endpoint[r] = "remotecc"
                                  THEN RemoteCC_Response(res)
                                  ELSE Notify_Response(res)
                      IN  [sent |-> @.sent + 1, status |-> resp.status,
                           body |-> resp.body]]
    /\ pc' = [pc EXCEPT ![r] = "responded"]

\* Mutant: the response is sent from the acknowledgement of an observer, so
\* with no socket connected it is never sent.
Callback_AwaitsObserver(r, res) ==
    /\ result' = [result EXCEPT ![r] = res]
    /\ eventObj' = [eventObj EXCEPT ![r] =
                      IF endpoint[r] = "remotecc"
                      THEN RemoteCC_EventObj(body[r], areaCode[r], res)
                      ELSE Notify_DebugBody(body[r], areaCode[r], res)]
    /\ insert' = [insert EXCEPT ![r] = [n |-> @.n + 1, st |-> "pending"]]
    /\ emitted' = Append(emitted,
                    [name |-> IF endpoint[r] = "remotecc"
                              THEN "new_event" ELSE "new_call",
                     payload |-> eventObj'[r]])
    /\ delivered' = Append(delivered, observers)
    /\ response' = IF observers = 0 THEN response
                   ELSE [response EXCEPT ![r] =
                           LET resp == IF endpoint[r] = "remotecc"
                                       THEN RemoteCC_Response(res)
                                       ELSE Notify_Response(res)
                           IN  [sent |-> @.sent + 1, status |-> resp.status,
                                body |-> resp.body]]
    /\ pc' = [pc EXCEPT ![r] = IF observers = 0 THEN "emitted" ELSE "responded"]

\* The callback the handler passes to its resolver: build the event, queue
\* the INSERT, emit the event, send the response.  (What it logs is added to
\* console by the action that calls it.)
Callback(r, res) ==
    /\ result' = [result EXCEPT ![r] = res]
    /\ eventObj' = [eventObj EXCEPT ![r] =
                      IF endpoint[r] = "remotecc"
                      THEN RemoteCC_EventObj(body[r], areaCode[r], res)
                      ELSE Notify_DebugBody(body[r], areaCode[r], res)]
    /\ insert' = [insert EXCEPT ![r] = [n |-> @.n + 1, st |-> "pending"]]
    /\ emitted' = Append(emitted,
                    [name |-> IF endpoint[r] = "remotecc"
                              THEN "new_event" ELSE "new_call",
                     payload |-> eventObj'[r]])
    /\ delivered' = Append(delivered, observers)
    /\ response' = [response EXCEPT ![r] =
                      LET resp == IF endpoint[r] = "remotecc"
                                  THEN RemoteCC_Response(res)
                                  ELSE Notify_Response(res)
                      IN  [sent |-> @.sent + 1, status |-> resp.status,
                           body |-> resp.body]]
    /\ pc' = [pc EXCEPT ![r] = "responded"]

\* console.log('Body:', eventObj) of the callback.
BodyLogged(r) == [level |-> "log", msg |-> "Body:", req |-> r]

\* console.error('Error querying database:', err) of the resolver.
LookupErrorLogged(r) ==
    [level |-> "error", msg |-> "Error querying database:", req |-> r]

\* Mutant: the match branch of the scan lacks its return, so after the
\* callback with the match the callback runs again with null.
LookupRows_NoReturn(r) ==
    /\ pc[r] = "lookup"
    /\ lookupDb' = [lookupDb EXCEPT ![r] = "closed"]
    /\ LET res == IF endpoint[r] = "remotecc"
                  THEN getExtensionByAreaCode(table, areaCode[r])
                  ELSE getStateAndExtensionByAreaCode(table, areaCode[r])
           name == IF endpoint[r] = "remotecc" THEN "new_event" ELSE "new_call"
           first == IF endpoint[r] = "remotecc"
                    THEN RemoteCC_EventObj(body[r], areaCode[r], res)
                    ELSE Notify_DebugBody(body[r], areaCode[r], res)
       IN  IF ~res.found
           THEN /\ console' = Append(console, BodyLogged(r))
                /\ Callback(r, res)
           ELSE /\ console' = console \o <<BodyLogged(r), BodyLogged(r)>>
                /\ result' = [result EXCEPT ![r] = NoMatch]
                /\ eventObj' = [eventObj EXCEPT ![r] =
                                  IF endpoint[r] = "remotecc"
                                  THEN RemoteCC_EventObj(body[r], areaCode[r],
                                                         NoMatch)
                                  ELSE Notify_DebugBody(body[r], areaCode[r],
                                                        NoMatch)]
                /\ insert' = [insert EXCEPT ![r] =
                                [n |-> @.n + 2, st |-> "pending"]]
                /\ emitted' = emitted \o
                                <<[name |-> name, payload |-> first],
                                  [name |-> name, payload |-> eventObj'[r]]>>
                /\ delivered' = delivered \o <<observers, observers>>
                /\ response' = [response EXCEPT ![r] =
                                  LET resp == IF endpoint[r] = "remotecc"
                                              THEN RemoteCC_Response(res)
                                              ELSE Notify_Response(res)
                                  IN  [sent |-> @.sent + 2,
                                       status |-> resp.status,
                                       body |-> resp.body]]
                /\ pc' = [pc EXCEPT ![r] = "responded"]
    /\ UNCHANGED <<server, table, clock, endpoint, body, areaCode, events, calls,
                   probe>>
    /\ UNCHANGED <<query, observers, authVars>>

\* The lookupDb.all callback with rows: scan them, close lookupDb, call back.
LookupRows(r) ==
    /\ pc[r] = "lookup"
    /\ lookupDb' = [lookupDb EXCEPT ![r] = "closed"]
    /\ console' = Append(console, BodyLogged(r))
    /\ Callback(r, IF endpoint[r] = "remotecc"
                   THEN getExtensionByAreaCode(table, areaCode[r])
                   ELSE getStateAndExtensionByAreaCode(table, areaCode[r]))
    /\ UNCHANGED <<server, table, clock, endpoint, body, areaCode, events, calls,
                   probe>>
    /\ UNCHANGED <<query, observers, authVars>>

\* Mutant: on a query error the resolver logs and returns without calling
\* back.
LookupError_NoCallback(r) ==
    /\ pc[r] = "lookup"
    /\ pc' = [pc EXCEPT ![r] = "dropped"]
    /\ console' = Append(console, LookupErrorLogged(r))
    /\ UNCHANGED <<server, table, clock, endpoint, body, areaCode, lookupDb,
                   result, eventObj, insert, response, events, calls, emitted,
                   probe>>
    /\ UNCHANGED <<query, observers, delivered, authVars>>

\* Mutant: a query error is passed on to the webhook caller as a 500, and no
\* event is built.
LookupError_Answers500(r) ==
    /\ pc[r] = "lookup"
    /\ console' = Append(console, LookupErrorLogged(r))
    /\ response' = [response EXCEPT ![r] =
                      [sent |-> @.sent + 1, status |-> 500, body |-> <<>>]]
    /\ pc' = [pc EXCEPT ![r] = "responded"]
    /\ UNCHANGED <<server, table, clock, endpoint, body, areaCode, lookupDb,
                   result, eventObj, insert, events, calls, emitted, probe>>
    /\ UNCHANGED <<query, observers, delivered, authVars>>

\* The lookupDb.all callback with err: log it and call back with null;
\* lookupDb is not closed on this path.
LookupError(r) ==
    /\ pc[r] = "lookup"
    /\ console' = console \o <<LookupErrorLogged(r), BodyLogged(r)>>
    /\ Callback(r, NoMatch)
    /\ UNCHANGED <<server, table, clock, endpoint, body, areaCode, lookupDb, events,
                   calls, probe>>
    /\ UNCHANGED <<query, observers, authVars>>

\* A parameter bound to a ? of the INSERT: undefined is stored as NULL.
ToSql(x) == IF x.t = "undef" THEN Null ELSE x

\* The row the INSERT of RemoteCC.js adds to events.
EventsRow(e, id, ts) ==
    [id |-> id, PBX_ID |-> ToSql(e.PBX_ID), CALL_ID |-> ToSql(e.CALL_ID),
     CALLER_ID_NAME |-> ToSql(e.CALLER_ID_NAME),
     CALLER_ID_NUMBER |-> ToSql(e.CALLER_ID_NUMBER),
     DIALED_NUMBER |-> ToSql(e.DIALED_NUMBER), AREA_CODE |-> Str(e.AREA_CODE),
     MATCHED_STATE |-> ToSql(e.MATCHED_STATE),
     MATCHED_EXTENSION |-> ToSql(e.MATCHED_EXTENSION), timestamp |-> ts]

\* The row the INSERT of HTTPNotify.js adds to calls.
CallsRow(e, id, ts) ==
    [id |-> id, PBX_ID |-> ToSql(e.PBX_ID), CALL_ID |-> ToSql(e.CALL_ID),
     DIALED_NUMBER |-> ToSql(e.DIALED_NUMBER),
     CALLER_ID_NUMBER |-> ToSql(e.CALLER_ID_NUMBER),
     CALLER_ID_NAME |-> ToSql(e.CALLER_ID_NAME), timestamp |-> ts,
     CALLER_AREA_CODE |-> Str(e.CALLER_AREA_CODE), State |-> ToSql(e.State),
     Extension |-> ToSql(e.Extension)]

\* Mutant: the event is kept in one variable of the module, so a queued
\* INSERT stores the event built last, whichever request queued it.
InsertOk_SharedEvent(r) ==
    /\ insert[r].st = "pending"
    /\ insert' = [insert EXCEPT ![r].st = "ok"]
    /\ \E d \in {0, 1} : clock' = clock + d
    /\ LET last == emitted[Len(emitted)].payload
       IN  IF endpoint[r] = "remotecc"
           THEN /\ events' = Append(events,
                               EventsRow(last, Len(events) + 1, clock'))
                /\ calls' = calls
           ELSE /\ calls' = Append(calls,
                              CallsRow(last, Len(calls) + 1, clock'))
                /\ events' = events
    /\ UNCHANGED <<server, table, pc, endpoint, body, areaCode, lookupDb,
                   result, eventObj, response, emitted, probe>>
    /\ UNCHANGED <<console, query, observers, delivered, authVars>>

\* The queued INSERT runs and adds its row: id is the AUTOINCREMENT key,
\* timestamp defaults to CURRENT_TIMESTAMP, which has a resolution of one
\* second: since the last insert the clock has stayed or moved on (d).
InsertOk(r) ==
    /\ insert[r].st = "pending"
    /\ insert' = [insert EXCEPT ![r].st = "ok"]
    /\ \E d \in {0, 1} : clock' = clock + d
    /\ IF endpoint[r] = "remotecc"
       THEN /\ events' = Append(events,
                           EventsRow(eventObj[r], Len(events) + 1, clock'))
            /\ calls' = calls
       ELSE /\ calls' = Append(calls,
                          CallsRow(eventObj[r], Len(calls) + 1, clock'))
            /\ events' = events
    /\ UNCHANGED <<server, table, pc, endpoint, body, areaCode, lookupDb,
                   result, eventObj, response, emitted, probe>>
    /\ UNCHANGED <<console, query, observers, delivered, authVars>>

\* Mutant: a failed INSERT turns the answer into a 500.
InsertFail_Answers500(r) ==
    /\ insert[r].st = "pending"
    /\ insert' = [insert EXCEPT ![r].st = "failed"]
    /\ response' = [response EXCEPT ![r] =
                      [sent |-> @.sent, status |-> 500, body |-> <<>>]]
    /\ UNCHANGED <<server, table, clock, pc, endpoint, body, areaCode, lookupDb,
                   result, eventObj, events, calls, emitted, probe>>
    /\ UNCHANGED <<console, query, observers, delivered, authVars>>

\* The queued INSERT fails (the store is unavailable): db.run has no
\* callback, so no row is added and the handler is not told.
InsertFail(r) ==
    /\ insert[r].st = "pending"
    /\ insert' = [insert EXCEPT ![r].st = "failed"]
    /\ UNCHANGED <<server, table, clock, pc, endpoint, body, areaCode, lookupDb,
                   result, eventObj, response, events, calls, emitted, probe>>
    /\ UNCHANGED <<console, query, observers, delivered, authVars>>

Next ==
    \/ \E r \in Reqs, b \in Bodies : PostRemoteCC(r, b)
    \/ \E r \in Reqs, b \in Bodies : PostNotify(r, b)
    \/ \E r \in Reqs : LookupRows(r)
    \/ \E r \in Reqs : LookupError(r)
    \/ \E r \in Reqs : InsertOk(r)
    \/ \E r \in Reqs : InsertFail(r)

Spec == Init /\ [][Next]_vars

----------------------------------------------------------------------------
(* The extraction as a pure function: every caller number over a small     *)
(* alphabet, up to MaxNumLen characters, through both handlers' code.      *)

MaxNumLen == 11

NumAlphabet == {"1", "4", "-"}

SeqsUpTo(alphabet, n) == UNION {[1..k -> alphabet] : k \in 0..n}

InitExtract ==
    /\ server = "remotecc"
    /\ table = <<>>
    /\ RequestsIdle
    /\ AuthIdle
    /\ \E k \in 0..MaxNumLen :
         \E s \in [1..k -> NumAlphabet] :
             probe = [kind |-> "extract", num |-> s, done |-> FALSE,
                      remotecc |-> <<>>, notify |-> <<>>]

ApplyExtract ==
    /\ probe.kind = "extract"
    /\ ~probe.done
    /\ probe' = [probe EXCEPT
                   !.done = TRUE,
                   !.remotecc = RemoteCC_AreaCode(Str(probe.num)).code,
                   !.notify = Notify_AreaCode(Str(probe.num)).code]
    /\ UNCHANGED <<serverVars, authVars>>

NextExtract == ApplyExtract

SpecExtract == InitExtract /\ [][NextExtract]_vars

----------------------------------------------------------------------------
(* The resolvers as pure functions: every table of up to MaxRows rows      *)
(* whose AreaCodes is NULL or a text of ListFields, and every area code of *)
(* AreaCodeInputs.  Row i has State "s<i>" and Extension "<i>".            *)

MaxRows == 2

MaxFieldLen == 2

FieldAlphabet == {"4", ",", " "}

\* Every text of up to MaxFieldLen characters, and some longer lists.
ListFields ==
    SeqsUpTo(FieldAlphabet, MaxFieldLen)
      \cup { <<"4", ",", "4", "4">>, <<"4", "4", ",", " ", "4">>,
             <<"4", "4", "4">>, <<" ", "4", "4", " ", ",">> }

FieldValues == {Null} \cup {Str(f) : f \in ListFields}

AreaCodeInputs == {<<>>, <<"4">>, <<"4", "4">>}

DigitChar(i) == CASE i = 1 -> "1" [] i = 2 -> "2" [] i = 3 -> "3" [] OTHER -> "9"

\* The table whose rows have the area-code fields f[1], ..., f[n].
ProbeTable(n, f) ==
    [i \in 1..n |-> Row(Str(<<"s", DigitChar(i)>>), f[i], Str(<<DigitChar(i)>>))]

InitResolve ==
    /\ server = "remotecc"
    /\ table = <<>>
    /\ RequestsIdle
    /\ AuthIdle
    /\ \E n \in 0..MaxRows, ac \in AreaCodeInputs :
         \E f \in [1..n -> FieldValues] :
             probe = [kind |-> "resolve", rows |-> ProbeTable(n, f),
                      areaCode |-> ac, done |-> FALSE, remotecc |-> NoMatch,
                      notify |-> NoMatch, response |-> NoResponse]

ApplyResolve ==
    /\ probe.kind = "resolve"
    /\ ~probe.done
    /\ probe' = [probe EXCEPT
                   !.done = TRUE,
                   !.remotecc = getExtensionByAreaCode(probe.rows, probe.areaCode),
                   !.notify = getStateAndExtensionByAreaCode(probe.rows,
                                                             probe.areaCode),
                   !.response =
                       LET resp == RemoteCC_Response(
                                     getExtensionByAreaCode(probe.rows,
                                                            probe.areaCode))
                       IN  [sent |-> 1, status |-> resp.status,
                            body |-> resp.body]]
    /\ UNCHANGED <<serverVars, authVars>>

NextResolve == ApplyResolve

SpecResolve == InitResolve /\ [][NextResolve]_vars

----------------------------------------------------------------------------
(* One POST /remotecc whose body is any JSON or form body: each field      *)
(* missing or present, CALLER_ID_NUMBER of any JSON type express.json()    *)
(* delivers.                                                               *)

Anonymous10 == Str(<<"a", "n", "o", "n", "y", "m", "o", "u", "s", "!">>)

JsonNumbers ==
    { Undefined, Null, EmptyStr, Short555, Ten415, Plus1415, Anonymous10,
      Num(<<"0">>), Num(<<"4", "1", "5", "5", "5", "5", "1", "2", "3", "4">>),
      Arr(<<"4", "1", "5">>),
      Arr(<<"4", "1", "5", "5", "5", "5", "1", "2", "3", "4">>) }

JsonBodies ==
    { MkBody(pbx, cid, name, num, dialed) :
        pbx \in {Undefined, Str(<<"p">>)}, cid \in {Undefined, Str(<<"c">>)},
        name \in {Undefined, Str(<<"n">>)}, num \in JsonNumbers,
        dialed \in {Undefined, Str(<<"d">>)} }

InitBody ==
    /\ server = "remotecc"
    /\ table \in Tables
    /\ RequestsIdle
    /\ AuthIdle
    /\ probe = NoProbe

NextBody ==
    \/ \E b \in JsonBodies : PostRemoteCC(1, b)
    \/ LookupRows(1)
    \/ LookupError(1)
    \/ InsertOk(1)
    \/ InsertFail(1)

SpecBody == InitBody /\ [][NextBody]_vars

----------------------------------------------------------------------------
(* The two listeners side by side: the extraction and the resolver of each *)
(* on the same caller number, and on the same table and area code.         *)

InitVariants == InitExtract \/ InitResolve

NextVariants == ApplyExtract \/ ApplyResolve

SpecVariants == InitVariants /\ [][NextVariants]_vars

----------------------------------------------------------------------------
(* The query endpoints: the listener of a run together with its GET        *)
(* /events or GET /calls.                                                  *)

\* ORDER BY timestamp DESC: every arrangement of the rows in which no row
\* comes before a row of a later timestamp.  SQL leaves the order of rows of
\* one timestamp open.
OrderByTimestampDesc(rows) ==
    { [i \in DOMAIN rows |-> rows[p[i]]] :
        p \in { f \in [DOMAIN rows -> DOMAIN rows] :
                  /\ \A i, j \in DOMAIN rows : i # j => f[i] # f[j]
                  /\ \A i, j \in DOMAIN rows :
                       i < j => rows[f[i]].timestamp >= rows[f[j]].timestamp } }

\* err.message of a failed db.all
ReadErrorMessage == Str(<<"S", "Q", "L", "I", "T", "E", "_", "E", "R", "R", "O", "R">>)

\* Mutant: the query joins each event with the routing table as it is now.
GetEvents_Joined ==
    /\ server = "remotecc"
    /\ \E rows \in OrderByTimestampDesc(events) :
         query' = [status |-> 200,
                   rows |-> [i \in DOMAIN rows |->
                               LET res == getExtensionByAreaCode(
                                              table, rows[i].AREA_CODE.v)
                               IN  [rows[i] EXCEPT
                                      !.MATCHED_STATE =
                                          IF res.found THEN res.state ELSE Null,
                                      !.MATCHED_EXTENSION =
                                          IF res.found THEN res.extension
                                          ELSE Null]],
                   error |-> <<>>]
    /\ UNCHANGED <<server, table, clock, pc, endpoint, body, areaCode, lookupDb,
                   result, eventObj, insert, response, events, calls, emitted,
                   console, probe, authVars>>
    /\ UNCHANGED <<observers, delivered>>

\* app.get('/events') and its db.all callback with rows: res.json(rows).
GetEvents ==
    /\ server = "remotecc"
    /\ \E rows \in OrderByTimestampDesc(events) :
         query' = [status |-> 200, rows |-> rows, error |-> <<>>]
    /\ UNCHANGED <<server, table, clock, pc, endpoint, body, areaCode, lookupDb,
                   result, eventObj, insert, response, events, calls, emitted,
                   console, probe, authVars>>
    /\ UNCHANGED <<observers, delivered>>

\* Mutant: a failed read is answered as an empty list.
GetEventsError_EmptyList ==
    /\ server = "remotecc"
    /\ query' = [status |-> 200, rows |-> <<>>, error |-> <<>>]
    /\ UNCHANGED <<server, table, clock, pc, endpoint, body, areaCode, lookupDb,
                   result, eventObj, insert, response, events, calls, emitted,
                   console, probe, authVars>>
    /\ UNCHANGED <<observers, delivered>>

\* app.get('/events') and its db.all callback with err:
\* res.status(500).json({ error: err.message }).
GetEventsError ==
    /\ server = "remotecc"
    /\ query' = [status |-> 500, rows |-> <<>>, error |-> ReadErrorMessage.v]
    /\ UNCHANGED <<server, table, clock, pc, endpoint, body, areaCode, lookupDb,
                   result, eventObj, insert, response, events, calls, emitted,
                   console, probe, authVars>>
    /\ UNCHANGED <<observers, delivered>>

\* app.get('/calls') and its db.all callback with rows.
GetCalls ==
    /\ server = "notify"
    /\ \E rows \in OrderByTimestampDesc(calls) :
         query' = [status |-> 200, rows |-> rows, error |-> <<>>]
    /\ UNCHANGED <<server, table, clock, pc, endpoint, body, areaCode, lookupDb,
                   result, eventObj, insert, response, events, calls, emitted,
                   console, probe, authVars>>
    /\ UNCHANGED <<observers, delivered>>

\* app.get('/calls') and its db.all callback with err.
GetCallsError ==
    /\ server = "notify"
    /\ query' = [status |-> 500, rows |-> <<>>, error |-> ReadErrorMessage.v]
    /\ UNCHANGED <<server, table, clock, pc, endpoint, body, areaCode, lookupDb,
                   result, eventObj, insert, response, events, calls, emitted,
                   console, probe, authVars>>
    /\ UNCHANGED <<observers, delivered>>

\* res.send('GoTo Connect Remote Call Control listener is running.') and
\* res.send('GoTo Connect HTTP Notify listener is running.')
Running(listener) ==
    IF listener = "remotecc"
    THEN "GoTo Connect Remote Call Control listener is running."
    ELSE "GoTo Connect HTTP Notify listener is running."

\* Mutant: the health check empties the event table.
GetRoot_Truncates ==
    /\ server \in {"remotecc", "notify"}
    /\ probe' = [kind |-> "health", status |-> 200, body |-> Running(server)]
    /\ events' = <<>>
    /\ calls' = <<>>
    /\ UNCHANGED <<server, table, clock, pc, endpoint, body, areaCode, lookupDb,
                   result, eventObj, insert, response, emitted, console,
                   query, authVars>>
    /\ UNCHANGED <<observers, delivered>>

\* app.get('/'): the health check answers 200 with a fixed text.
GetRoot ==
    /\ server \in {"remotecc", "notify"}
    /\ probe' = [kind |-> "health", status |-> 200, body |-> Running(server)]
    /\ UNCHANGED <<serverVars, authVars>>

\* CALLER_ID_NUMBER of the requests of the query model.
QueryNumbers == {Undefined, Ten415}

QueryBodies ==
    { MkBody(Str(<<"p">>), Str(<<"c">>), Str(<<"n">>), num, Str(<<"d">>)) :
        num \in QueryNumbers }

\* Either listener, over the table that routes 415.
InitQuery ==
    /\ server \in {"remotecc", "notify"}
    /\ table = <<RowNV, RowNull, RowCA, RowTX>>
    /\ RequestsIdle
    /\ AuthIdle
    /\ probe = NoProbe

NextQuery ==
    \/ \E r \in Reqs, b \in QueryBodies : PostRemoteCC(r, b)
    \/ \E r \in Reqs, b \in QueryBodies : PostNotify(r, b)
    \/ \E r \in Reqs : LookupRows(r)
    \/ \E r \in Reqs : LookupError(r)
    \/ \E r \in Reqs : InsertOk(r)
    \/ \E r \in Reqs : InsertFail(r)
    \/ GetEvents
    \/ GetEventsError
    \/ GetCalls
    \/ GetCallsError

SpecQuery == InitQuery /\ [][NextQuery]_vars

\* Every operation of the listener, the health check included, on requests
\* that carry one body.
LogBodies ==
    { MkBody(Str(<<"p">>), Str(<<"c">>), Str(<<"n">>), Ten415, Str(<<"d">>)) }

NextLog ==
    \/ \E r \in Reqs, b \in LogBodies : PostRemoteCC(r, b)
    \/ \E r \in Reqs, b \in LogBodies : PostNotify(r, b)
    \/ \E r \in Reqs : LookupRows(r)
    \/ \E r \in Reqs : LookupError(r)
    \/ \E r \in Reqs : InsertOk(r)
    \/ \E r \in Reqs : InsertFail(r)
    \/ GetEvents
    \/ GetEventsError
    \/ GetCalls
    \/ GetCallsError
    \/ GetRoot

SpecLog == InitQuery /\ [][NextLog]_vars

----------------------------------------------------------------------------
(* RemoteCC.js while the routing table is edited.  The listener opens      *)
(* statescodes.db anew for each lookup and never writes it; whoever        *)
(* maintains the table changes it between any two steps.                   *)

\* The file statescodes.db is replaced by another table.
TableChanged ==
    /\ server = "remotecc"
    /\ \E t \in Tables \ {table} : table' = t
    /\ UNCHANGED <<server, clock, pc, endpoint, body, areaCode, lookupDb, result,
                   eventObj, insert, response, events, calls, emitted, console,
                   query, probe, authVars>>
    /\ UNCHANGED <<observers, delivered>>

\* The body of request r: CALL_ID names the call.
CallBody(r) ==
    MkBody(Str(<<"p">>), Str(<<DigitChar(r)>>), Str(<<"n">>), Ten415, Str(<<"d">>))

InitTable ==
    /\ server = "remotecc"
    /\ table \in Tables
    /\ RequestsIdle
    /\ AuthIdle
    /\ probe = NoProbe

NextTable ==
    \/ \E r \in Reqs : PostRemoteCC(r, CallBody(r))
    \/ \E r \in Reqs : LookupRows(r)
    \/ \E r \in Reqs : LookupError(r)
    \/ \E r \in Reqs : InsertOk(r)
    \/ \E r \in Reqs : InsertFail(r)
    \/ GetEvents
    \/ GetEventsError
    \/ TableChanged

SpecTable == InitTable /\ [][NextTable]_vars

----------------------------------------------------------------------------
(* Either listener with observers: sockets connect to io and disconnect    *)
(* at any moment, also while a request awaits its lookup.                  *)

MaxObservers == 1

\* A socket connects to the Server built on the http server.
Connect ==
    /\ server \in {"remotecc", "notify"}
    /\ observers < MaxObservers
    /\ observers' = observers + 1
    /\ UNCHANGED <<server, table, clock, pc, endpoint, body, areaCode, lookupDb,
                   result, eventObj, insert, response, events, calls, emitted,
                   delivered, console, query, probe, authVars>>

\* A connected socket disconnects.
Disconnect ==
    /\ server \in {"remotecc", "notify"}
    /\ observers > 0
    /\ observers' = observers - 1
    /\ UNCHANGED <<server, table, clock, pc, endpoint, body, areaCode, lookupDb,
                   result, eventObj, insert, response, events, calls, emitted,
                   delivered, console, query, probe, authVars>>

NextObservers ==
    \/ \E r \in Reqs, b \in LogBodies : PostRemoteCC(r, b)
    \/ \E r \in Reqs, b \in LogBodies : PostNotify(r, b)
    \/ \E r \in Reqs : LookupRows(r)
    \/ \E r \in Reqs : LookupError(r)
    \/ \E r \in Reqs : InsertOk(r)
    \/ \E r \in Reqs : InsertFail(r)
    \/ Connect
    \/ Disconnect

SpecObservers == InitQuery /\ [][NextObservers]_vars

----------------------------------------------------------------------------
(* The token servers: AllExt.js, getTokenServer.js (src/unnamed/part_001)  *)
(* and napphovol.js (src/snapshot-all.sh).  A run is of one of them.       *)

\* The state values getAuthUrl draws from.
MaxStates == 2

\* OAuth redirects of one run.
MaxRedirect == 2

\* Minutes the clock of a run advances.
MaxTime == 2

\* refreshAccessToken calls that await the provider at once.
MaxRefresh == 1

\* getValidAccessToken refreshes from 60000 ms before the expiry: a minute.
RefreshMargin == 1

Programs == {"AllExt", "getTokenServer", "napphovol"}

\* crypto.randomBytes(15).toString('hex') of generateState
StateValues == {Str(<<"s", DigitChar(k)>>) : k \in 1..MaxStates}

\* req.query.state of a redirect: a generated state, or none.
RedirectStates == StateValues \cup {Undefined}

Redirects == 1..MaxRedirect

Token(access, refresh, expires) ==
    [access_token |-> access, refresh_token |-> refresh,
     expires_in |-> expires]

\* The tokens the provider answers an exchange or a refresh with; expires_in
\* is in minutes.
ProviderTokens ==
    { Token(Str(<<"a", "1">>), Str(<<"r", "1">>), Undefined),
      Token(Str(<<"a", "2">>), Undefined, Num(<<"2">>)),
      Token(Str(<<"a", "3">>), Str(<<"r", "3">>), Num(<<"1">>)) }

\* The value of an expires_in of the model.
NumValue(x) == IF x.v = <<"1">> THEN 1 ELSE 2

\* JSON.stringify of the object saveTokens is given: a key whose value is
\* undefined is left out.
JsonStringify(tokens) ==
    [exists |-> TRUE, valid |-> TRUE,
     accessToken |-> IF tokens.accessToken.t = "undef" THEN Absent
                     ELSE tokens.accessToken,
     refreshToken |-> IF tokens.refreshToken.t = "undef" THEN Absent
                      ELSE tokens.refreshToken,
     expires_in |-> IF tokens.expires_in.t = "undef" THEN Absent
                    ELSE tokens.expires_in]

\* A property of the object JSON.parse returns: undefined for a missing key.
JsonProperty(x) == IF x = Absent THEN Undefined ELSE x

\* loadTokens: {} when tokens.json is missing or does not parse.
loadTokens(file) ==
    IF file.exists /\ file.valid
    THEN [accessToken |-> JsonProperty(file.accessToken),
          refreshToken |-> JsonProperty(file.refreshToken),
          expires_in |-> JsonProperty(file.expires_in)]
    ELSE [accessToken |-> Undefined, refreshToken |-> Undefined,
          expires_in |-> Undefined]

\* tokens.json as a run can find it: missing, not JSON, written by the
\* redirect handler, written by refreshAccessToken.
InitialFiles ==
    { NoFile,
      [NoFile EXCEPT !.exists = TRUE],
      JsonStringify([accessToken |-> Str(<<"a", "0">>),
                     refreshToken |-> Str(<<"r", "0">>),
                     expires_in |-> Undefined]),
      JsonStringify([accessToken |-> Str(<<"a", "0">>),
                     refreshToken |-> Str(<<"r", "0">>),
                     expires_in |-> Num(<<"1">>)]) }

\* Date.now() + expires_in * 1000
ExpiryAt(t, expires) ==
    IF expires.t = "num" THEN [t |-> "num", n |-> t + NumValue(expires)]
    ELSE [t |-> "nan", n |-> 0]

\* The tokenExpiry that saveTokens and loadTokens of AllExt.js leave: set
\* when the object has a truthy expires_in (the other programs have no
\* tokenExpiry).
ExpiryAfter(tokens, expiry) ==
    IF program = "AllExt" /\ Truthy(tokens.expires_in)
    THEN ExpiryAt(now, tokens.expires_in)
    ELSE expiry

\* No redirect has arrived.
NoRedirect == [pc |-> "idle", status |-> 0]

\* The module has run: tokens.json is loaded into the in-memory tokens.
InitAuth ==
    /\ server = "none"
    /\ table = <<>>
    /\ RequestsIdle
    /\ probe = NoProbe
    /\ program \in Programs
    /\ now = 0
    /\ expectedState = Null
    /\ tokenFile \in InitialFiles
    /\ latestAccessToken = loadTokens(tokenFile).accessToken
    /\ latestRefreshToken = loadTokens(tokenFile).refreshToken
    /\ tokenExpiry =
         IF /\ program = "AllExt"
            /\ Truthy(loadTokens(tokenFile).expires_in)
            /\ Truthy(loadTokens(tokenFile).accessToken)
         THEN ExpiryAt(0, loadTokens(tokenFile).expires_in)
         ELSE NoExpiry
    /\ oauth = [r \in Redirects |-> NoRedirect]
    /\ refreshing = 0
    /\ granted =
         IF Truthy(loadTokens(tokenFile).accessToken)
         THEN [by |-> "file", at |-> 0,
               expires_in |-> loadTokens(tokenFile).expires_in]
         ELSE NoGrant

\* Date.now() moves on.
Tick ==
    /\ program # "none"
    /\ now < MaxTime
    /\ now' = now + 1
    /\ UNCHANGED <<serverVars, probe, program, expectedState,
                   latestAccessToken, latestRefreshToken, tokenExpiry,
                   tokenFile, oauth, refreshing>>
    /\ UNCHANGED granted

\* app.get("/auth"): store the state of a new authorization URL.
GetAuth ==
    /\ program # "none"
    /\ \E state \in StateValues : expectedState' = state
    /\ UNCHANGED <<serverVars, probe, program, now, latestAccessToken,
                   latestRefreshToken, tokenExpiry, tokenFile, oauth,
                   refreshing>>
    /\ UNCHANGED granted

\* Mutant: the state is compared with != , for which undefined equals null.
Redirect_LooseCompare(r, state) ==
    /\ program # "none"
    /\ oauth[r].pc = "idle"
    /\ \A q \in Redirects : q < r => oauth[q].pc # "idle"
    /\ oauth' = [oauth EXCEPT ![r] =
                   IF state # expectedState
                      /\ ~(state = Undefined /\ expectedState = Null)
                   THEN [pc |-> "done", status |-> 403]
                   ELSE [pc |-> "exchanging", status |-> 0]]
    /\ UNCHANGED <<serverVars, probe, program, now, expectedState,
                   latestAccessToken, latestRefreshToken, tokenExpiry,
                   tokenFile, refreshing>>
    /\ UNCHANGED granted

\* app.get("/login/oauth2/code/goto") up to its await: 403 unless
\* req.query.state === expectedState, else getToken is called.
Redirect(r, state) ==
    /\ program # "none"
    /\ oauth[r].pc = "idle"
    /\ \A q \in Redirects : q < r => oauth[q].pc # "idle"
    /\ oauth' = [oauth EXCEPT ![r] =
                   IF state # expectedState
                   THEN [pc |-> "done", status |-> 403]
                   ELSE [pc |-> "exchanging", status |-> 0]]
    /\ UNCHANGED <<serverVars, probe, program, now, expectedState,
                   latestAccessToken, latestRefreshToken, tokenExpiry,
                   tokenFile, refreshing>>
    /\ UNCHANGED granted

\* getToken resolved: keep the tokens, save them, answer 200.
TokenResolved(r, token) ==
    /\ oauth[r].pc = "exchanging"
    /\ latestAccessToken' = token.access_token
    /\ latestRefreshToken' = token.refresh_token
    /\ LET tokens == [accessToken |-> token.access_token,
                      refreshToken |-> token.refresh_token,
                      expires_in |-> Undefined]
       IN  /\ tokenFile' = JsonStringify(tokens)
           /\ tokenExpiry' = ExpiryAfter(tokens, tokenExpiry)
    /\ oauth' = [oauth EXCEPT ![r].pc = "done", ![r].status = 200]
    /\ granted' = [by |-> "callback", at |-> now,
                   expires_in |-> token.expires_in]
    /\ UNCHANGED <<serverVars, probe, program, now, expectedState,
                   refreshing>>

\* getToken rejected: answer 500 with the message.
TokenRejected(r) ==
    /\ oauth[r].pc = "exchanging"
    /\ oauth' = [oauth EXCEPT ![r].pc = "done", ![r].status = 500]
    /\ UNCHANGED <<serverVars, probe, program, now, expectedState,
                   latestAccessToken, latestRefreshToken, tokenExpiry,
                   tokenFile, refreshing>>
    /\ UNCHANGED granted

\* tokenExpiry && Date.now() > tokenExpiry - 60000
ExpiredOrAboutTo ==
    tokenExpiry.t = "num" /\ tokenExpiry.n # 0
      /\ now > tokenExpiry.n - RefreshMargin

\* getValidAccessToken of AllExt.js, called by GET /api/extensions-list,
\* when it goes on to refreshAccessToken and that reaches its await.
StartRefresh ==
    /\ program = "AllExt"
    /\ Truthy(latestAccessToken)
    /\ ExpiredOrAboutTo
    /\ Truthy(latestRefreshToken)
    /\ refreshing < MaxRefresh
    /\ refreshing' = refreshing + 1
    /\ UNCHANGED <<serverVars, probe, program, now, expectedState,
                   latestAccessToken, latestRefreshToken, tokenExpiry,
                   tokenFile, oauth>>
    /\ UNCHANGED granted

\* tokenObj.refresh resolved: keep the tokens and the expiry, save them.
RefreshResolved(token) ==
    /\ refreshing > 0
    /\ refreshing' = refreshing - 1
    /\ latestAccessToken' = token.access_token
    /\ latestRefreshToken' = token.refresh_token
    /\ LET tokens == [accessToken |-> token.access_token,
                      refreshToken |-> token.refresh_token,
                      expires_in |-> token.expires_in]
       IN  /\ tokenFile' = JsonStringify(tokens)
           /\ tokenExpiry' =
                 ExpiryAfter(tokens, ExpiryAt(now, token.expires_in))
    /\ granted' = [by |-> "refresh", at |-> now,
                   expires_in |-> token.expires_in]
    /\ UNCHANGED <<serverVars, probe, program, now, expectedState, oauth>>

\* tokenObj.refresh rejected: log and return null.
RefreshRejected ==
    /\ refreshing > 0
    /\ refreshing' = refreshing - 1
    /\ UNCHANGED <<serverVars, probe, program, now, expectedState,
                   latestAccessToken, latestRefreshToken, tokenExpiry,
                   tokenFile, oauth>>
    /\ UNCHANGED granted

\* req.query.accessToken of GET /api/set-access-token
SetTokenValues == {Undefined, Str(<<"a", "9">>)}

\* app.get('/api/set-access-token') of napphovol.js
SetAccessToken(accessToken) ==
    /\ program = "napphovol"
    /\ latestAccessToken' = accessToken
    /\ granted' = IF Truthy(accessToken)
                  THEN [by |-> "query", at |-> now, expires_in |-> Undefined]
                  ELSE NoGrant
    /\ UNCHANGED <<serverVars, probe, program, now, expectedState,
                   latestRefreshToken, tokenExpiry, tokenFile, oauth,
                   refreshing>>

\* app.post('/debug/clear-state') of napphovol.js
ClearState ==
    /\ program = "napphovol"
    /\ expectedState' = Null
    /\ UNCHANGED <<serverVars, probe, program, now, latestAccessToken,
                   latestRefreshToken, tokenExpiry, tokenFile, oauth,
                   refreshing>>
    /\ UNCHANGED granted

NextAuth ==
    \/ Tick
    \/ GetAuth
    \/ \E r \in Redirects, state \in RedirectStates : Redirect(r, state)
    \/ \E r \in Redirects, token \in ProviderTokens : TokenResolved(r, token)
    \/ \E r \in Redirects : TokenRejected(r)
    \/ StartRefresh
    \/ \E token \in ProviderTokens : RefreshResolved(token)
    \/ RefreshRejected
    \/ \E accessToken \in SetTokenValues : SetAccessToken(accessToken)
    \/ ClearState

SpecAuth == InitAuth /\ [][NextAuth]_vars

----------------------------------------------------------------------------
(* AllExt.js: getValidAccessToken, called by GET /api/extensions-list.     *)

\* getValidAccessToken when it returns without awaiting the provider: null
\* without an access token; null from refreshAccessToken when the token is
\* expired or about to be and there is no refresh token; else the stored
\* token.  (With a refresh token the second case is StartRefresh.)
GetValidAccessToken ==
    /\ program = "AllExt"
    /\ ~(Truthy(latestAccessToken) /\ ExpiredOrAboutTo
           /\ Truthy(latestRefreshToken))
    /\ probe' = [kind |-> "getValidAccessToken", at |-> now,
                 returned |-> IF ~Truthy(latestAccessToken) THEN Null
                              ELSE IF ExpiredOrAboutTo THEN Null
                              ELSE latestAccessToken]
    /\ UNCHANGED <<serverVars, authVars>>

InitExpiry == InitAuth /\ program = "AllExt"

NextExpiry ==
    \/ Tick
    \/ GetAuth
    \/ \E r \in Redirects, state \in RedirectStates : Redirect(r, state)
    \/ \E r \in Redirects, token \in ProviderTokens : TokenResolved(r, token)
    \/ \E r \in Redirects : TokenRejected(r)
    \/ StartRefresh
    \/ \E token \in ProviderTokens : RefreshResolved(token)
    \/ RefreshRejected
    \/ GetValidAccessToken

SpecExpiry == InitExpiry /\ [][NextExpiry]_vars

----------------------------------------------------------------------------
(* napphovol.js (src/snapshot-all.sh): GET /api/test-accountkey-compare,   *)
(* for which app.get is called twice.  The router keeps its handlers in    *)
(* the order of registration and gives a request to the first whose path   *)
(* matches; a later one runs only if that handler calls next(), and these  *)
(* take (req, res) and answer on every path.                               *)

ComparePath == "/api/test-accountkey-compare"

\* The two app.get calls for the path, in the order of the file.
CompareLayers ==
    <<[path |-> ComparePath, handler |-> "first"],
      [path |-> ComparePath, handler |-> "enhanced"]>>

\* The handler the router gives a GET of the path to.
Dispatch(layers, path) ==
    LET matching == {i \in DOMAIN layers : layers[i].path = path}
        i == CHOOSE k \in matching : \A j \in matching : k <= j
    IN  layers[i].handler

\* What the provider holds for a run of a handler: no voicemail box, boxes
\* without a message that has an accountKey, an accountKey in the first
\* message of the first box, an accountKey only in a later message or box,
\* or a failing boxes request.
ProviderAnswers == {"no_boxes", "no_key", "key_first", "key_later", "failed"}

\* The first handler: one box, its first message.
CompareFirst(accessToken, organizationId, provider) ==
    IF ~Truthy(accessToken)
    THEN [handler |-> "first", status |-> 401,
          keys |-> {"error"},
          error |-> "Missing access token. Please authenticate first."]
    ELSE IF ~Truthy(organizationId)
    THEN [handler |-> "first", status |-> 400,
          keys |-> {"error"},
          error |-> "Missing organization ID. Please set ORGANIZATIONALID in .env or provide as query param."]
    ELSE IF provider = "failed"
    THEN [handler |-> "first", status |-> 500,
          keys |-> {"error", "details"}, error |-> "error.message"]
    ELSE IF provider = "no_boxes"
    THEN [handler |-> "first", status |-> 404, keys |-> {"error"},
          error |-> "No voicemailboxes found for this organization."]
    ELSE IF provider \in {"no_key", "key_later"}
    THEN [handler |-> "first", status |-> 404, keys |-> {"error"},
          error |-> "No accountKey found in first voicemail message."]
    ELSE [handler |-> "first", status |-> 200,
          keys |-> {"voicemailAccountKey", "voiceAdminResult"},
          error |-> ""]

\* The second handler: up to 100 boxes, up to 20 messages of each.
CompareEnhanced(accessToken, organizationId, provider) ==
    IF ~Truthy(accessToken)
    THEN [handler |-> "enhanced", status |-> 401,
          keys |-> {"error"},
          error |-> "Missing access token. Please authenticate first."]
    ELSE IF ~Truthy(organizationId)
    THEN [handler |-> "enhanced", status |-> 400,
          keys |-> {"error"},
          error |-> "Missing organization ID. Please set ORGANIZATIONALID in .env or provide as query param."]
    ELSE IF provider = "failed"
    THEN [handler |-> "enhanced", status |-> 500,
          keys |-> {"error", "details"}, error |-> "error.message"]
    ELSE IF provider \in {"no_boxes", "no_key"}
    THEN [handler |-> "enhanced", status |-> 404,
          keys |-> {"error", "debugMessages"},
          error |-> "No accountKey found in any of the first 100 voicemail boxes/messages."]
    ELSE [handler |-> "enhanced", status |-> 200,
          keys |-> {"voicemailAccountKey", "voicemailBox", "voicemailMessage",
                    "voiceAdminResult", "debugMessages"},
          error |-> ""]

\* req.query.accessToken and req.query.organizationId ||
\* process.env.ORGANIZATIONALID of a request.
CompareTokens == {Undefined, Str(<<"a", "8">>)}

CompareOrganizations == {Undefined, Str(<<"o">>)}

\* A GET /api/test-accountkey-compare and its answer.  The handler reads
\* latestAccessToken before its first await and writes no variable of the
\* module, so its steps are taken as one.
TestAccountKeyCompare(accessToken, organizationId, provider) ==
    /\ program = "napphovol"
    /\ LET token == IF Truthy(accessToken) THEN accessToken
                    ELSE latestAccessToken
       IN  probe' =
             [kind |-> "route",
              answer |-> IF Dispatch(CompareLayers, ComparePath) = "first"
                         THEN CompareFirst(token, organizationId, provider)
                         ELSE CompareEnhanced(token, organizationId, provider)]
    /\ UNCHANGED <<serverVars, authVars>>

InitRoute == InitAuth /\ program = "napphovol"

NextRoute ==
    \/ GetAuth
    \/ \E r \in Redirects, state \in RedirectStates : Redirect(r, state)
    \/ \E r \in Redirects, token \in ProviderTokens : TokenResolved(r, token)
    \/ \E r \in Redirects : TokenRejected(r)
    \/ \E accessToken \in SetTokenValues : SetAccessToken(accessToken)
    \/ ClearState
    \/ \E accessToken \in CompareTokens, organizationId \in CompareOrganizations,
          provider \in ProviderAnswers :
            TestAccountKeyCompare(accessToken, organizationId, provider)

SpecRoute == InitRoute /\ [][NextRoute]_vars

\* The lookup query of a request completes, with rows or with an error.
FairSpec ==
    Spec /\ \A r \in Reqs : WF_vars(LookupError(r) \/ LookupRows(r))

----------------------------------------------------------------------------
(* Properties of the server model (Spec, FairSpec) *)

\* The text a value of the routing table has in a response body.
TextOf(x) == IF x.t = "str" THEN x.v ELSE <<>>

RemoteCCAnswered(r) == endpoint[r] = "remotecc" /\ pc[r] = "responded"

\* C1: POST /remotecc always answers 200; the body is the extension of the
\* rule the resolver found, and the empty string when it found none.
C1_Status200BodyIsExtension ==
    \A r \in Reqs :
        RemoteCCAnswered(r) =>
            /\ response[r].sent = 1
            /\ response[r].status = 200
            /\ response[r].body =
                   IF result[r].found THEN TextOf(result[r].extension)
                   ELSE <<>>

C1_Witness ==
    \E r, q \in Reqs :
        /\ RemoteCCAnswered(r) /\ result[r].found
        /\ response[r].body = <<"1", "0", "0">>
        /\ RemoteCCAnswered(q) /\ ~result[q].found
        /\ response[q].body = <<>>

\* The rows of the table include row.
Holds(rows, row) == \E i \in 1..Len(rows) : rows[i] = row

\* C2: with the row {CA, "415, 650", "100"} in the table, a POST /remotecc
\* of caller number "+14155551234" has area code "415" and is answered 200
\* with body "100".
C2_Plus1415Gives415And100 ==
    \A r \in Reqs :
        ( /\ RemoteCCAnswered(r)
          /\ body[r].CALLER_ID_NUMBER = Plus1415
          /\ Holds(table, RowCA)
          /\ lookupDb[r] = "closed" ) =>
            /\ areaCode[r] = <<"4", "1", "5">>
            /\ response[r].status = 200
            /\ response[r].body = <<"1", "0", "0">>

----------------------------------------------------------------------------
(* Properties of the extraction (SpecExtract) *)

DigitPositions(s) == {i \in 1..Len(s) : IsDigit(s[i])}

\* c is made of the first three digits of s, in order.
IsFirstThreeDigits(s, c) ==
    \E i1, i2, i3 \in DigitPositions(s) :
        /\ i1 < i2 /\ i2 < i3
        /\ \A j \in DigitPositions(s) : j < i3 => j \in {i1, i2}
        /\ c = <<s[i1], s[i2], s[i3]>>

\* C3: a caller number with fewer than 10 digits has an empty area code,
\* whatever the length of the raw string.
C3_FewerThanTenDigitsIsEmpty ==
    ( /\ probe.kind = "extract" /\ probe.done
      /\ Cardinality(DigitPositions(probe.num)) < 10 ) =>
        /\ probe.remotecc = <<>>
        /\ probe.notify = <<>>

\* C4: a caller number with at least 10 digits has as area code the first
\* three digits of its digit-only form, in both handlers.
C4_TenDigitsGiveFirstThree ==
    ( /\ probe.kind = "extract" /\ probe.done
      /\ Cardinality(DigitPositions(probe.num)) >= 10 ) =>
        /\ IsFirstThreeDigits(probe.num, probe.remotecc)
        /\ IsFirstThreeDigits(probe.num, probe.notify)

\* A number of at least 10 digits that starts with a non-digit.
C4_Witness ==
    /\ probe.kind = "extract" /\ probe.done
    /\ Cardinality(DigitPositions(probe.num)) >= 10
    /\ ~IsDigit(probe.num[1])
    /\ probe.remotecc = <<"4", "1", "4">>

----------------------------------------------------------------------------
(* Properties of the resolvers (SpecResolve) *)

\* The comma-separated list f has an entry that, with the white space
\* around it removed, is exactly ac (ac has no white space of its own): the
\* entry is f[a..b], between two commas or ends of f, and ac sits at p.
ListHasEntry(f, ac) ==
    \E a \in 1..(Len(f) + 1), b \in 0..Len(f) :
        /\ a <= b + 1
        /\ a = 1 \/ f[a - 1] = ","
        /\ b = Len(f) \/ f[b + 1] = ","
        /\ \A i \in a..b : f[i] # ","
        /\ \E p \in a..(b + 1) :
             /\ p + Len(ac) - 1 <= b
             /\ SubSeq(f, p, p + Len(ac) - 1) = ac
             /\ \A i \in a..(p - 1) : f[i] \in WhiteSpace
             /\ \A i \in (p + Len(ac))..b : f[i] \in WhiteSpace

\* The rows whose area-code field is present, not empty, and lists ac.
Candidates(rows, ac) ==
    {i \in 1..Len(rows) :
        /\ rows[i].AreaCodes.t = "str"
        /\ rows[i].AreaCodes.v # <<>>
        /\ ListHasEntry(rows[i].AreaCodes.v, ac)}

FirstOf(set) == CHOOSE i \in set : \A j \in set : i <= j

Expected(rows, ac) ==
    IF Candidates(rows, ac) = {} THEN NoMatch
    ELSE [found |-> TRUE,
          state |-> rows[FirstOf(Candidates(rows, ac))].State,
          extension |-> rows[FirstOf(Candidates(rows, ac))].Extension]

\* C5: both resolvers return the state and extension of the first row, in
\* table order, whose comma-split, trimmed list has an entry equal to the
\* area code, and no match when there is none; a row whose area-code field
\* is empty or NULL is never returned.
C5_FirstExactMatch ==
    (probe.kind = "resolve" /\ probe.done) =>
        /\ probe.remotecc = Expected(probe.rows, probe.areaCode)
        /\ probe.notify = Expected(probe.rows, probe.areaCode)

\* Two rows list the area code and the first of the two is returned.
C5_Witness ==
    /\ probe.kind = "resolve" /\ probe.done
    /\ Cardinality(Candidates(probe.rows, probe.areaCode)) >= 2
    /\ probe.areaCode = <<"4">>
    /\ probe.remotecc.found
    /\ probe.remotecc.extension =
           probe.rows[FirstOf(Candidates(probe.rows, probe.areaCode))].Extension

\* C6: the empty area code matches no rule, whatever comma-separated text
\* the rows hold, and POST /remotecc then answers with an empty body.
C6_EmptyAreaCodeNeverMatches ==
    (probe.kind = "resolve" /\ probe.done /\ probe.areaCode = <<>>) =>
        /\ ~probe.remotecc.found
        /\ ~probe.notify.found
        /\ probe.response.body = <<>>

----------------------------------------------------------------------------
(* Properties of persistence and of the response (Spec, FairSpec) *)

Answered == {r \in Reqs : pc[r] = "responded"}

Settled == \A r \in Reqs : insert[r].st # "pending"

LogLen == Len(events) + Len(calls)

\* C7 as stated: once n webhook calls have completed (answered, no INSERT
\* still queued), the event log holds exactly n rows more than at the start,
\* when it was empty.
C7_OneRowPerCall == Settled => LogLen = Cardinality(Answered)

\* C7 as amended: every answered call has issued exactly one INSERT,
\* whatever the match outcome, and no other call has issued any; the log
\* holds exactly one row per INSERT that succeeded, so exactly n rows after
\* n completed calls none of whose INSERTs failed.
C7_OneInsertPerCall ==
    /\ \A r \in Reqs : insert[r].n = IF r \in Answered THEN 1 ELSE 0
    /\ LogLen = Cardinality({r \in Reqs : insert[r].st = "ok"})
    /\ ( Settled /\ \A r \in Reqs : insert[r].st # "failed" ) =>
           LogLen = Cardinality(Answered)

\* Two completed calls, one with a match and one without, and two rows.
C7_Witness ==
    \E r, q \in Reqs :
        /\ insert[r].st = "ok" /\ result[r].found
        /\ insert[q].st = "ok" /\ ~result[q].found
        /\ Settled
        /\ LogLen = 2

\* C8: when the INSERT of the event fails, POST /remotecc has still answered
\* 200, with the body it sends for the same area code and lookup outcome
\* when the INSERT succeeds.
C8_AnswerIndependentOfInsert ==
    \A r \in Reqs :
        (endpoint[r] = "remotecc" /\ insert[r].st = "failed") =>
            /\ response[r].sent = 1
            /\ response[r].status = 200
            /\ \A q \in Reqs :
                 ( /\ insert[q].st = "ok"
                   /\ areaCode[q] = areaCode[r]
                   /\ lookupDb[q] = lookupDb[r] ) =>
                     response[q] = response[r]

\* Two calls of one caller number that matched a rule: the INSERT of one
\* failed, that of the other succeeded.
C8_Witness ==
    \E r, q \in Reqs :
        /\ endpoint[r] = "remotecc" /\ insert[r].st = "failed"
        /\ insert[q].st = "ok"
        /\ areaCode[q] = areaCode[r]
        /\ result[r].found /\ result[q].found
        /\ response[r].body = <<"1", "0", "0">>

\* C9: every POST /remotecc and POST /notify whose lookup query completes
\* is answered, on a match, on no match and on a lookup error.
C9_EveryRequestAnswered ==
    \A r \in Reqs : (pc[r] = "lookup") ~> (response[r].sent = 1)

\* One request answered after a lookup error, another after a match.
C9_Witness ==
    \E r, q \in Reqs :
        /\ pc[r] = "responded" /\ lookupDb[r] = "open" /\ response[r].sent = 1
        /\ pc[q] = "responded" /\ result[q].found /\ response[q].sent = 1

----------------------------------------------------------------------------
(* Properties of one POST /remotecc with any body (SpecBody) *)

FieldNames ==
    {"PBX_ID", "CALL_ID", "CALLER_ID_NAME", "CALLER_ID_NUMBER", "DIALED_NUMBER"}

\* C10: whatever fields of the body are missing and whatever value
\* CALLER_ID_NUMBER carries, the extraction does not throw, the handler
\* reaches its response, and a missing field is stored as NULL.
C10_AnyBodyIsHandled ==
    \A r \in Reqs :
        /\ pc[r] # "threw"
        /\ pc[r] = "responded" => response[r].sent = 1
        /\ \A i \in 1..Len(events), f \in FieldNames :
             (insert[r].st = "ok" /\ body[r][f] = Undefined) =>
                 events[i][f] = Null

----------------------------------------------------------------------------
(* Properties of the lookup error path, of the event and of its log (Spec) *)

InConsole(entry) == \E k \in DOMAIN console : console[k] = entry

\* The request was answered after its lookup query failed: only that path
\* leaves lookupDb open.
LookupFailed(r) == pc[r] = "responded" /\ lookupDb[r] = "open"

\* C11: when the lookup query of a POST /remotecc fails, the resolver calls
\* back with no match: the answer is 200 with an empty body, the error is
\* logged, and the event is still built with null matched state and
\* extension, logged, pushed and handed to the INSERT, whose row (when the
\* INSERT succeeds) carries NULL in both columns.
C11_LookupErrorIsNoMatch ==
    \A r \in Reqs :
        (endpoint[r] = "remotecc" /\ LookupFailed(r)) =>
            /\ ~result[r].found
            /\ response[r] = [sent |-> 1, status |-> 200, body |-> <<>>]
            /\ eventObj[r].MATCHED_STATE = Null
            /\ eventObj[r].MATCHED_EXTENSION = Null
            /\ InConsole(LookupErrorLogged(r))
            /\ InConsole(BodyLogged(r))
            /\ \E k \in DOMAIN emitted :
                 emitted[k] = [name |-> "new_event", payload |-> eventObj[r]]
            /\ insert[r].n = 1
            /\ insert[r].st = "ok" =>
                 \E i \in DOMAIN events :
                     /\ events[i] = EventsRow(eventObj[r], events[i].id,
                                              events[i].timestamp)
                     /\ events[i].MATCHED_STATE = Null
                     /\ events[i].MATCHED_EXTENSION = Null

\* A call from 415 against a table that routes 415: the lookup failed, the
\* answer is empty and the row is stored.
C11_Witness ==
    \E r \in Reqs :
        /\ endpoint[r] = "remotecc" /\ LookupFailed(r)
        /\ body[r].CALLER_ID_NUMBER = Ten415
        /\ getExtensionByAreaCode(table, areaCode[r]).found
        /\ insert[r].st = "ok"
        /\ Len(events) >= 1

\* Both NULL / null or neither.
Paired(state, extension) == (state = Null) <=> (extension = Null)

\* C14: in every pushed event and in every stored row, matched state and
\* matched extension are both null or both set, whatever table the resolver
\* read.
C14_StateAndExtensionPaired ==
    /\ \A k \in DOMAIN emitted :
         IF emitted[k].name = "new_event"
         THEN Paired(emitted[k].payload.MATCHED_STATE,
                     emitted[k].payload.MATCHED_EXTENSION)
         ELSE Paired(emitted[k].payload.State, emitted[k].payload.Extension)
    /\ \A i \in DOMAIN events :
         Paired(events[i].MATCHED_STATE, events[i].MATCHED_EXTENSION)
    /\ \A i \in DOMAIN calls : Paired(calls[i].State, calls[i].Extension)

\* Some row of the event log stores the payload of the message.
Persisted(message) ==
    IF message.name = "new_event"
    THEN \E i \in DOMAIN events :
             events[i] = EventsRow(message.payload, events[i].id,
                                   events[i].timestamp)
    ELSE \E i \in DOMAIN calls :
             calls[i] = CallsRow(message.payload, calls[i].id,
                                 calls[i].timestamp)

\* No lookup and no INSERT is under way.
Quiescent == Settled /\ \A r \in Reqs : pc[r] # "lookup"

\* C15: every message on the real-time channel is of an event whose row is
\* already stored, so there are never more messages than rows, none for an
\* INSERT that failed or is still queued, and once nothing is under way
\* there is exactly one message per row.
C15_EmitOnlyAfterAppend ==
    /\ \A k \in DOMAIN emitted : Persisted(emitted[k])
    /\ Len(emitted) <= LogLen
    /\ Quiescent => Len(emitted) = LogLen

\* C16: the handler reports every failed INSERT of an event: the console
\* holds an error of that request that is not the resolver's lookup error,
\* and the request is answered.
C16_InsertFailureIsLogged ==
    \A r \in Reqs :
        insert[r].st = "failed" =>
            /\ \E k \in DOMAIN console :
                 /\ console[k].req = r
                 /\ console[k].level = "error"
                 /\ console[k] # LookupErrorLogged(r)
            /\ response[r].sent = 1

NotifyAnswered(r) == endpoint[r] = "notify" /\ pc[r] = "responded"

\* C17: POST /notify answers 200 with the body "Received" on a match, on no
\* match and on a lookup error; the outcome is in the event it logs and
\* pushes as new_call, which carries the five input fields, CALLER_AREA_CODE,
\* State and Extension.
C17_NotifyAnswersReceived ==
    \A r \in Reqs :
        NotifyAnswered(r) =>
            /\ response[r] = [sent |-> 1, status |-> 200, body |-> Received]
            /\ eventObj[r] =
                 [PBX_ID |-> body[r].PBX_ID, CALL_ID |-> body[r].CALL_ID,
                  DIALED_NUMBER |-> body[r].DIALED_NUMBER,
                  CALLER_ID_NUMBER |-> body[r].CALLER_ID_NUMBER,
                  CALLER_ID_NAME |-> body[r].CALLER_ID_NAME,
                  CALLER_AREA_CODE |-> areaCode[r],
                  State |-> IF result[r].found THEN result[r].state ELSE Null,
                  Extension |-> IF result[r].found THEN result[r].extension
                                ELSE Null]
            /\ InConsole(BodyLogged(r))
            /\ \E k \in DOMAIN emitted :
                 emitted[k] = [name |-> "new_call", payload |-> eventObj[r]]

\* Two answered POST /notify, one that matched extension 100 and one that
\* matched nothing.
C17_Witness ==
    \E r, q \in Reqs :
        /\ NotifyAnswered(r) /\ result[r].found
        /\ eventObj[r].Extension = Ext100
        /\ NotifyAnswered(q) /\ ~result[q].found
        /\ response[r].body = Received /\ response[q].body = Received

----------------------------------------------------------------------------
(* Properties of the query endpoints (SpecQuery) *)

\* The event log of the listener of the run.
Log == IF server = "remotecc" THEN events ELSE calls

InRows(row, rows) == \E k \in DOMAIN rows : rows[k] = row

\* C12: GET /events and GET /calls list the persisted events strictly
\* newest first: of every two rows of the answer, the one with the larger
\* id comes first, whatever their timestamps.
C12_NewestFirstById ==
    query.status = 200 =>
        \A i, j \in DOMAIN query.rows :
            i < j => query.rows[i].id > query.rows[j].id

\* The row stores the five input fields of the body.
SameInput(row, b) ==
    /\ row.PBX_ID = ToSql(b.PBX_ID)
    /\ row.CALL_ID = ToSql(b.CALL_ID)
    /\ row.CALLER_ID_NAME = ToSql(b.CALLER_ID_NAME)
    /\ row.CALLER_ID_NUMBER = ToSql(b.CALLER_ID_NUMBER)
    /\ row.DIALED_NUMBER = ToSql(b.DIALED_NUMBER)

\* C13: two webhook calls with the same payload, both stored, are two rows
\* of that payload with distinct ids and distinct timestamps, and an answer
\* of the query endpoint that lists the whole log lists both.
C13_IdenticalPayloadsDistinctEvents ==
    \A r, q \in Reqs :
        ( /\ r # q
          /\ body[r] = body[q]
          /\ insert[r].st = "ok"
          /\ insert[q].st = "ok" ) =>
            \E i, j \in DOMAIN Log :
                /\ i # j
                /\ SameInput(Log[i], body[r])
                /\ SameInput(Log[j], body[q])
                /\ Log[i].id # Log[j].id
                /\ Log[i].timestamp # Log[j].timestamp
                /\ (query.status = 200 /\ Len(query.rows) = Len(Log)) =>
                     InRows(Log[i], query.rows) /\ InRows(Log[j], query.rows)

\* The answer lists exactly the rows of the log, each once.
ListsAll(rows, log) ==
    /\ Len(rows) = Len(log)
    /\ \A i \in DOMAIN log : InRows(log[i], rows)
    /\ \A k \in DOMAIN rows : InRows(rows[k], log)

\* C18: every answer of GET /events and GET /calls is either 200 with all
\* the rows of the event log, or 500 with the JSON object {error: message}
\* of the failed read; the step that answers leaves both event tables as
\* they were.
C18_QueryAnswersAllOrError ==
    [][ query' # query =>
          /\ events' = events
          /\ calls' = calls
          /\ \/ /\ query'.status = 200
                /\ query'.error = <<>>
                /\ ListsAll(query'.rows, Log)
             \/ /\ query'.status = 500
                /\ query'.error = ReadErrorMessage.v
                /\ query'.rows = <<>> ]_vars

\* GET /events answered 200 with the two rows of the log.
C18_Witness ==
    /\ server = "remotecc"
    /\ query.status = 200
    /\ Len(events) = 2
    /\ ListsAll(query.rows, events)

----------------------------------------------------------------------------
(* Properties of the token servers (SpecAuth) *)

\* C19: a redirect whose state parameter is the stored expectedState, which
\* is then the state of the most recent GET /auth, goes on to exchange its
\* code; a redirect with any other state, or none, is answered 403 and
\* leaves the in-memory tokens and tokens.json as they were; and no redirect
\* starts an exchange, or stores tokens, in any other way.
C19_ExchangeOnlyOnExpectedState ==
    [][ /\ \A r \in Redirects, state \in RedirectStates :
             Redirect(r, state) =>
                 IF state = expectedState
                 THEN /\ oauth'[r] = [pc |-> "exchanging", status |-> 0]
                      /\ expectedState \in StateValues
                 ELSE /\ oauth'[r] = [pc |-> "done", status |-> 403]
                      /\ latestAccessToken' = latestAccessToken
                      /\ latestRefreshToken' = latestRefreshToken
                      /\ tokenFile' = tokenFile
        /\ \A r \in Redirects :
             (oauth[r].pc = "idle" /\ oauth'[r].pc = "exchanging") =>
                 \E state \in RedirectStates :
                     state = expectedState /\ Redirect(r, state)
        /\ \A r \in Redirects :
             (oauth[r].status # 200 /\ oauth'[r].status = 200) =>
                 oauth[r].pc = "exchanging" ]_vars

\* One redirect was refused and another, after a GET /auth, has stored the
\* tokens of its exchange.
C19_Witness ==
    \E r, q \in Redirects :
        /\ oauth[r] = [pc |-> "done", status |-> 403]
        /\ oauth[q] = [pc |-> "done", status |-> 200]
        /\ expectedState \in StateValues
        /\ latestAccessToken \in {t.access_token : t \in ProviderTokens}

\* tokens.json holds the access and the refresh token that are in memory.
TokensInSync ==
    /\ loadTokens(tokenFile).accessToken = latestAccessToken
    /\ loadTokens(tokenFile).refreshToken = latestRefreshToken

\* C20: every step that changes the in-memory access token (the redirect
\* handler, a refresh, any endpoint that sets the token) leaves in
\* tokens.json the access and refresh tokens that are in memory.
C20_FileFollowsMemory ==
    [][ latestAccessToken' # latestAccessToken => TokensInSync' ]_vars

----------------------------------------------------------------------------
(* Properties of the steps of a webhook request (Spec) *)

\* C21: a request that was answered has had its notification published, and
\* a request whose notification was published has had its row persisted:
\* Persisted comes before Notified, which comes before Responded.
C21_PersistedNotifiedResponded ==
    \A r \in Reqs :
        /\ response[r].sent >= 1 =>
              \E k \in DOMAIN emitted : emitted[k].payload = eventObj[r]
        /\ (\E k \in DOMAIN emitted :
                 pc[r] = "responded" /\ emitted[k].payload = eventObj[r]) =>
              insert[r].st = "ok"

\* How often the handler of request r logged its event.
BodiesLogged(r) ==
    Cardinality({k \in DOMAIN console : console[k] = BodyLogged(r)})

\* C27: the resolver calls back exactly once per call, on a match, on no
\* match and on a query error: an answered request has run its callback
\* once, so it has logged its event once, issued one INSERT, emitted one
\* message and sent one response, and a request not yet answered none.
C27_CallbackExactlyOnce ==
    /\ \A r \in Reqs :
         LET times == IF pc[r] = "responded" THEN 1 ELSE 0
         IN  /\ BodiesLogged(r) = times
             /\ insert[r].n = times
             /\ response[r].sent = times
    /\ Len(emitted) = Cardinality(Answered)

\* Three paths: a match, no match, a query error.
C27_Witness ==
    \E r, q \in Reqs :
        /\ pc[r] = "responded" /\ result[r].found /\ lookupDb[r] = "closed"
        /\ pc[q] = "responded" /\ ~result[q].found
        /\ Len(emitted) = 2

\* C30: when the resolver has called back, the connection it opened on
\* statescodes.db is closed, on a match, on no match and on a query error.
C30_LookupConnectionsClosed ==
    \A r \in Reqs : pc[r] = "responded" => lookupDb[r] = "closed"

----------------------------------------------------------------------------
(* Properties of requests in flight at once (Spec) *)

\* Row i of the event log holds the input fields, the area code and the
\* match outcome of request r, and nothing of another request.
RowOf(r, i) ==
    IF endpoint[r] = "remotecc"
    THEN /\ i \in DOMAIN events
         /\ events[i] =
              EventsRow(RemoteCC_EventObj(body[r], areaCode[r], result[r]),
                        i, events[i].timestamp)
    ELSE /\ i \in DOMAIN calls
         /\ calls[i] =
              CallsRow(Notify_DebugBody(body[r], areaCode[r], result[r]),
                       i, calls[i].timestamp)

\* The rows of the log are, one to one, the rows of the requests of the set.
RowsAreOf(requests) ==
    \E f \in [1..LogLen -> requests] :
        /\ \A i, j \in 1..LogLen : i # j => f[i] # f[j]
        /\ \A r \in requests : \E i \in 1..LogLen : f[i] = r
        /\ \A i \in 1..LogLen : RowOf(f[i], i)

\* C22 as stated: once no INSERT is queued, the rows of the log are, one to
\* one, the rows of the answered requests: none mixed, lost or duplicated.
C22_OneRowPerRequest == Settled => RowsAreOf(Answered)

\* C22 as amended: at every moment the rows of the log are, one to one, the
\* rows of the requests whose INSERT has succeeded, however the requests
\* interleave; a request whose INSERT failed has no row.
C22_OneRowPerStoredRequest ==
    RowsAreOf({r \in Reqs : insert[r].st = "ok"})

\* Two requests of different payloads were in flight together and their
\* rows were stored in the order opposite to their arrival.
C22_Witness ==
    /\ LogLen = 2
    /\ body[1] # body[2]
    /\ result[1] # result[2]
    /\ RowOf(2, 1)
    /\ RowOf(1, 2)

----------------------------------------------------------------------------
(* Properties of the event log under every operation (SpecLog) *)

IsPrefix(old, new) ==
    /\ Len(old) <= Len(new)
    /\ \A i \in DOMAIN old : new[i] = old[i]

\* C23: every step of POST /remotecc, POST /notify, GET /events, GET /calls
\* and GET / leaves each persisted row as it was and in its place: the log
\* after the step extends the log before it.
C23_LogIsAppendOnly ==
    [][ IsPrefix(events, events') /\ IsPrefix(calls, calls') ]_vars

\* Two rows are stored, and the log was queried and the health check called
\* with rows in it.
C23_Witness ==
    /\ LogLen = 2
    /\ query.status = 200
    /\ Len(query.rows) >= 1
    /\ probe.kind = "health"

----------------------------------------------------------------------------
(* Properties of the two listeners side by side (SpecVariants) *)

\* C28: RemoteCC.js and HTTPNotify.js compute the same area code for every
\* caller number, and their resolvers give the same state and extension, or
\* both no match, for every table and area code.
C28_VariantsAgree ==
    /\ (probe.kind = "extract" /\ probe.done) => probe.remotecc = probe.notify
    /\ (probe.kind = "resolve" /\ probe.done) => probe.remotecc = probe.notify

\* Both listeners took "414" out of a number of ten characters that has a
\* hyphen among them.
C28_Witness ==
    /\ probe.kind = "extract"
    /\ probe.done
    /\ Len(probe.num) = TenChars
    /\ \E i \in DOMAIN probe.num : probe.num[i] = "-"
    /\ probe.remotecc = <<"4", "1", "4">>
    /\ probe.notify = <<"4", "1", "4">>

----------------------------------------------------------------------------
(* Properties of stored events while the routing table changes (SpecTable) *)

\* Row i of the last answer of GET /events is the event of request r.
AnsweredRowOf(r, i) ==
    /\ pc[r] = "responded"
    /\ query.rows[i].CALL_ID = body[r].CALL_ID

\* C24: the state and extension that GET /events returns for an event are
\* those the resolver gave when the event was created, whatever the routing
\* table has become since.
C24_MatchCopiedAtCreation ==
    query.status = 200 =>
        \A i \in DOMAIN query.rows, r \in Reqs :
            AnsweredRowOf(r, i) =>
                /\ query.rows[i].MATCHED_STATE = eventObj[r].MATCHED_STATE
                /\ query.rows[i].MATCHED_EXTENSION = eventObj[r].MATCHED_EXTENSION

\* The event of a call was created with state CA and extension 100, the
\* table no longer routes its area code, and GET /events lists it with CA
\* and 100.
C24_Witness ==
    /\ query.status = 200
    /\ \E i \in DOMAIN query.rows, r \in Reqs :
         /\ AnsweredRowOf(r, i)
         /\ result[r] = MatchOf(RowCA)
         /\ getExtensionByAreaCode(table, areaCode[r]) = NoMatch
         /\ query.rows[i].MATCHED_STATE = CA
         /\ query.rows[i].MATCHED_EXTENSION = Ext100

----------------------------------------------------------------------------
(* Properties of the response beside the observers (SpecObservers) *)

ResponseOf(r) ==
    LET resp == IF endpoint[r] = "remotecc" THEN RemoteCC_Response(result[r])
                ELSE Notify_Response(result[r])
    IN  [sent |-> 1, status |-> resp.status, body |-> resp.body]

\* C25: every request whose lookup has come back is answered, once, with the
\* status and body that its listener and its resolver result determine,
\* whatever the number of sockets its message went to; each io.emit goes to
\* the sockets connected at that moment.
C25_ResponseWhateverObservers ==
    /\ \A r \in Reqs :
         pc[r] \notin {"idle", "lookup"} =>
             /\ pc[r] = "responded"
             /\ response[r] = ResponseOf(r)
    /\ Len(delivered) = Len(emitted)
    /\ Len(emitted) = Cardinality(Answered)

\* Two requests with the same resolver result, one published to no socket
\* and one to at least one, a socket having connected while the second was
\* in flight, are answered alike.
C25_Witness ==
    /\ \A r \in Reqs : pc[r] = "responded"
    /\ \A r, q \in Reqs : result[r] = result[q] /\ response[r] = response[q]
    /\ \E r \in Reqs : result[r].found
    /\ delivered[1] = 0
    /\ delivered[Len(delivered)] >= 1

----------------------------------------------------------------------------
(* Properties of the route registered twice (SpecRoute) *)

\* C26: a GET /api/test-accountkey-compare is served by the handler
\* registered second and never by the one registered first.
C26_SecondHandlerServes ==
    probe.kind = "route" => probe.answer.handler = "enhanced"

----------------------------------------------------------------------------
(* Properties of getValidAccessToken (SpecExpiry) *)

\* The access token in use came from the OAuth callback with an expires_in,
\* and now is within the margin of its expiry or past it.
CallbackTokenStale ==
    /\ granted.by = "callback"
    /\ granted.expires_in.t = "num"
    /\ now > granted.at + NumValue(granted.expires_in) - RefreshMargin

\* C29: a call of getValidAccessToken made when the token obtained through
\* the OAuth callback is within 60 seconds of its expiry or past it does not
\* return the stored token; it returns it only while the token is further
\* from its expiry.
C29_StaleCallbackTokenNotReturned ==
    [][ (GetValidAccessToken /\ CallbackTokenStale) =>
            probe'.returned # latestAccessToken ]_vars

====
